---- MODULE Spec2Model ----
(***************************************************************************)
(* clean_appcast.py: remove every release of one Sparkle update channel    *)
(* from an appcast.xml file.                                               *)
(*                                                                         *)
(* The file on disk holds a document as a value (a nested tree of          *)
(* elements).  ET.parse turns it into a heap of element objects with       *)
(* identity; the filter loop works on that heap; tree.write serialises     *)
(* what is still reachable from the root back into the file.               *)
(***************************************************************************)
EXTENDS Integers, Sequences, FiniteSets, TLC

VARIABLES
    file,           \* content of the file at the path given on the command line
    argv,           \* argv[p]: sys.argv of invocation p (<<>> before it is started)
    pc,             \* pc[p]: where invocation p stands in main / clean_appcast
    tree,           \* tree[p]: the element heap that ET.parse built (<<>> before)
    removed_count,  \* removed_count[p]: the local counter of clean_appcast
    stdout,         \* stdout[p]: the lines printed to standard output
    stderr,         \* stderr[p]: the lines printed to the error stream
    exit,           \* exit[p]: <<>> while running, <<status>> once terminated
    fileAtStart,    \* history: the file content when invocation p was started
    readFile,       \* history: the file content ET.parse of invocation p read
    reads,          \* history: how often invocation p opened the file for reading
    writes,         \* history: how often invocation p opened the file for writing
    writeLog        \* history: the invocations whose write reached the file, in order

vars == <<file, argv, pc, tree, removed_count, stdout, stderr, exit,
          fileAtStart, readFile, reads, writes, writeLog>>

(***************************************************************************)
(* Bounds of the model.                                                    *)
(***************************************************************************)
\* documents of the single-invocation specification have at most this many elements
MaxNodes == 6
\* documents of the run-twice specification
MaxNodesTwice == 6
\* documents of the two-concurrent-invocations specification
MaxNodesRace == 4

Procs == {1, 2}

(***************************************************************************)
(* Names.                                                                  *)
(***************************************************************************)
SPARKLE_NS == "http://www.andymatuschak.org/xml-namespaces/sparkle"

\* the qualified tag ElementTree gives <sparkle:channel>: f'{{{SPARKLE_NS}}}channel'
SparkleChannelTag == "{http://www.andymatuschak.org/xml-namespaces/sparkle}channel"

\* Python's None for Element.text is the empty option <<>>; a text s is <<s>>.
None == <<>>

\* the path every invocation is given
AppcastPath == "appcast.xml"

\* the update-channel names that occur in documents and on the command line;
\* two of them differ only in letter case
ChannelNames == {"edge", "Edge"}

(***************************************************************************)
(* Documents: well-formed XML as nested elements [tag, text, kids].        *)
(***************************************************************************)
RECURSIVE Size(_)
Size(t) ==
    LET RECURSIVE Sum(_)
        Sum(ks) == IF ks = <<>> THEN 0 ELSE Size(Head(ks)) + Sum(Tail(ks))
    IN 1 + Sum(t.kids)

LeafTags == {SparkleChannelTag, "title"}

\* the texts an element of the given tag carries in the documents enumerated
TextsOf(tag) ==
    IF tag = SparkleChannelTag THEN {<<c>> : c \in ChannelNames} ELSE {None}

\* the tags of the children an element of the given tag has in the documents
\* enumerated: rss > channel > item > sparkle:channel, feed channel metadata
\* (title), and a feed channel nested in an item, which puts channels and
\* items at any depth
KidTags(tag) ==
    CASE tag = "rss" -> {"channel"}
      [] tag = "channel" -> {"item", "title"}
      [] tag = "item" -> {SparkleChannelTag, "title", "channel"}
      [] OTHER -> {}

RECURSIVE TreesOf(_, _)
RECURSIVE ForestsOf(_, _)
\* the elements with the given tag and at most n elements in all (n >= 1)
TreesOf(tag, n) ==
    IF tag \in LeafTags
    THEN {[tag |-> tag, text |-> x, kids |-> <<>>] : x \in TextsOf(tag)}
    ELSE {[tag |-> tag, text |-> None, kids |-> f] : f \in ForestsOf(tag, n - 1)}
\* the child sequences of an element with the given tag, n elements in all at most
ForestsOf(tag, n) ==
    IF n <= 0 THEN {<<>>}
    ELSE {<<>>} \cup
         UNION { UNION { {<<k>> \o rest : rest \in ForestsOf(tag, n - Size(k))}
                         : k \in TreesOf(kt, n) }
                 : kt \in KidTags(tag) }

\* the root is an <rss> element or, for a bare feed, a <channel> element
RootTags == {"rss", "channel"}

Documents(n) == UNION {TreesOf(rt, n) : rt \in RootTags}

(***************************************************************************)
(* File contents.                                                          *)
(***************************************************************************)
Absent == [kind |-> "absent"]
\* an existing file of zero bytes (what open(path, "w") leaves)
Empty == [kind |-> "empty"]
\* an existing file that is not well-formed XML, of the given length
Malformed(n) == [kind |-> "malformed", len |-> n]
\* a well-formed document: with or without an XML declaration, and with the
\* prefix it binds to the Sparkle namespace
Xml(decl, prefix, t) == [kind |-> "xml", decl |-> decl, prefix |-> prefix, tree |-> t]

Prefixes == {"sparkle", "ns0"}

InitialFiles(n) ==
    {Absent, Empty, Malformed(1)} \cup
    {Xml(d, px, t) : d \in BOOLEAN, px \in Prefixes, t \in Documents(n)}

(***************************************************************************)
(* ET.parse: the document becomes a heap of element objects.  heap[i] is   *)
(* the element with identity i, its kids the identities of its children;   *)
(* the parser creates the elements in document order, the root first.      *)
(* The XML declaration and the namespace prefix are not part of the tree.  *)
(***************************************************************************)
RECURSIVE Flatten(_, _)
\* the heap cells of element t and its descendants, t's identity being id
Flatten(t, id) ==
    LET RECURSIVE KidIds(_, _)
        KidIds(ks, next) ==
            IF ks = <<>> THEN <<>>
            ELSE <<next>> \o KidIds(Tail(ks), next + Size(Head(ks)))
        RECURSIVE FlattenKids(_, _)
        FlattenKids(ks, next) ==
            IF ks = <<>> THEN <<>>
            ELSE Flatten(Head(ks), next) \o FlattenKids(Tail(ks), next + Size(Head(ks)))
    IN <<[tag |-> t.tag, text |-> t.text, kids |-> KidIds(t.kids, id + 1)]>>
       \o FlattenKids(t.kids, id + 1)

\* tree.getroot(): the identity of the root element
root == 1

\* ET.parse(appcast_path) of a well-formed document
ParseXml(content) == Flatten(content.tree, root)

\* an open that reports a missing file as a plain OSError
ParseOutcomePlainOSError(content) ==
    CASE content.kind = "absent" -> "OSError"
      [] content.kind = "xml" -> ""
      [] OTHER -> "ParseError"

\* what ET.parse raises on the file content, "" when it returns a tree
ParseOutcome(content) ==
    CASE content.kind = "absent" -> "FileNotFoundError"
      [] content.kind = "xml" -> ""
      [] OTHER -> "ParseError"

(***************************************************************************)
(* tree.write(appcast_path, encoding='utf-8', xml_declaration=True):       *)
(* what is reachable from the root, with the XML declaration and with the  *)
(* prefix registered for the Sparkle namespace.                            *)
(***************************************************************************)
RECURSIVE ToElement(_, _)
ToElement(heap, id) ==
    [tag |-> heap[id].tag, text |-> heap[id].text,
     kids |-> [i \in 1..Len(heap[id].kids) |-> ToElement(heap, heap[id].kids[i])]]

\* ET.register_namespace('sparkle', SPARKLE_NS)
RegisteredPrefix == "sparkle"

Serialize(heap) == Xml(TRUE, RegisteredPrefix, ToElement(heap, root))

\* the length in bytes of the qualified name of a tag as it is written
QNameLen(tag, prefix) ==
    CASE tag = SparkleChannelTag -> Len(prefix) + Len(":channel")
      [] OTHER -> Len(tag)

TextLen(text) == IF text = None THEN 0 ELSE Len(text[1])

RECURSIVE ElementLen(_, _)
\* <q /> for an element without text and children, <q>...</q> otherwise
ElementLen(t, prefix) ==
    LET RECURSIVE Sum(_)
        Sum(ks) == IF ks = <<>> THEN 0 ELSE ElementLen(Head(ks), prefix) + Sum(Tail(ks))
        q == QNameLen(t.tag, prefix)
    IN IF t.kids = <<>> /\ t.text = None
       THEN q + Len("< />")
       ELSE (q + Len("<>")) + TextLen(t.text) + Sum(t.kids) + (q + Len("</>"))

RECURSIVE UsesSparkle(_)
UsesSparkle(t) ==
    \/ t.tag = SparkleChannelTag
    \/ \E i \in 1..Len(t.kids) : UsesSparkle(t.kids[i])

\* the size of the file in bytes
ByteLen(content) ==
    CASE content.kind = "xml" ->
            (IF content.decl THEN Len("<?xml version='1.0' encoding='utf-8'?>") + 1 ELSE 0)
            + ElementLen(content.tree, content.prefix)
            + (IF UsesSparkle(content.tree)
               THEN Len(" xmlns:=") + Len(content.prefix) + Len(SPARKLE_NS) + 2
               ELSE 0)
      [] content.kind = "malformed" -> content.len
      [] OTHER -> 0

\* a file opened in append mode: the new bytes follow what the file holds
OverwriteAppending(old, new) ==
    IF ByteLen(old) = 0 THEN new ELSE Malformed(ByteLen(old) + ByteLen(new))

\* The bytes of `new` written from offset 0 into a file that holds `old`: the
\* file was truncated by this writer's own open, but another writer may have
\* written since.  A longer old content keeps its tail after the new bytes,
\* and what follows the end of the root element is not well-formed.
Overwrite(old, new) ==
    IF ByteLen(new) >= ByteLen(old) THEN new ELSE Malformed(ByteLen(old))

(***************************************************************************)
(* The ElementTree queries the filter uses.                                *)
(***************************************************************************)
RECURSIVE Descendants(_, _)
\* the identities of the descendants of an element, in document order
Descendants(heap, id) ==
    LET RECURSIVE Walk(_)
        Walk(ks) ==
            IF ks = <<>> THEN <<>>
            ELSE <<Head(ks)>> \o Descendants(heap, Head(ks)) \o Walk(Tail(ks))
    IN Walk(heap[id].kids)

\* element.findall(tag): the direct children with that tag, as a new list
FindallChildren(heap, id, tag) ==
    SelectSeq(heap[id].kids, LAMBDA k : heap[k].tag = tag)

\* element.findall('.//' + tag): the descendants with that tag, as a new list
FindallDescendants(heap, id, tag) ==
    SelectSeq(Descendants(heap, id), LAMBDA k : heap[k].tag = tag)

\* element.find(tag): the first direct child with that tag, or None
Find(heap, id, tag) ==
    LET found == FindallChildren(heap, id, tag)
    IN IF found = <<>> THEN None ELSE <<Head(found)>>

\* a remove() that compares elements by tag instead of by identity: it takes
\* out the first child that has the tag of `child`
RemoveFirstWithTag(heap, parent, child) ==
    LET ks == heap[parent].kids
        at == CHOOSE i \in 1..Len(ks) :
                 /\ heap[ks[i]].tag = heap[child].tag
                 /\ \A j \in 1..(i - 1) : heap[ks[j]].tag # heap[child].tag
    IN [heap EXCEPT ![parent].kids = SubSeq(ks, 1, at - 1) \o SubSeq(ks, at + 1, Len(ks))]

\* parent.remove(child): the child list without the first occurrence of child
Remove(heap, parent, child) ==
    LET ks == heap[parent].kids
        at == CHOOSE i \in 1..Len(ks) : ks[i] = child /\ \A j \in 1..(i - 1) : ks[j] # child
    IN [heap EXCEPT ![parent].kids = SubSeq(ks, 1, at - 1) \o SubSeq(ks, at + 1, Len(ks))]

(***************************************************************************)
(* clean_appcast, lines 33-43: the filter loop.                            *)
(***************************************************************************)
\* root.findall('channel'): only the feed channels directly under the root
FindChannelsTopLevel(heap) == FindallChildren(heap, root, "channel")

\* root.findall('.//channel')
FindChannels(heap) == FindallDescendants(heap, root, "channel")

\* channel_elem is not None: the text is not compared
HasChannelElem(heap, channel_elem, channel_to_remove) == channel_elem # None

\* channel_elem is not None and channel_elem.text == channel_to_remove
IsChannelToRemove(heap, channel_elem, channel_to_remove) ==
    /\ channel_elem # None
    /\ heap[channel_elem[1]].text = <<channel_to_remove>>

\* the loop over the live child list (for item in channel.iterfind('item')):
\* after a remove() the iteration skips the item that followed
FilterItemsLive(st, channel, items, channel_to_remove) ==
    LET RECURSIVE Go(_, _)
        Go(s, i) ==
            LET live == FindallChildren(s.heap, channel, "item")
            IN IF i > Len(live) THEN s
               ELSE LET channel_elem == Find(s.heap, live[i], SparkleChannelTag)
                    IN IF /\ channel_elem # None
                          /\ s.heap[channel_elem[1]].text = <<channel_to_remove>>
                       THEN Go([heap |-> Remove(s.heap, channel, live[i]),
                                count |-> s.count + 1], i + 1)
                       ELSE Go(s, i + 1)
    IN Go(st, 1)

RECURSIVE FilterItems(_, _, _, _)
\* for item in items: ... channel.remove(item); removed_count += 1
FilterItems(st, channel, items, channel_to_remove) ==
    IF items = <<>> THEN st
    ELSE LET item == Head(items)
             channel_elem == Find(st.heap, item, SparkleChannelTag)
             next == IF IsChannelToRemove(st.heap, channel_elem, channel_to_remove)
                     THEN [heap |-> Remove(st.heap, channel, item),
                           count |-> st.count + 1]
                     ELSE st
         IN FilterItems(next, channel, Tail(items), channel_to_remove)

RECURSIVE FilterChannels(_, _, _)
\* for channel in root.findall('.//channel'): items = channel.findall('item'); ...
FilterChannels(st, channels, channel_to_remove) ==
    IF channels = <<>> THEN st
    ELSE LET channel == Head(channels)
             items == FindallChildren(st.heap, channel, "item")
         IN FilterChannels(FilterItems(st, channel, items, channel_to_remove),
                           Tail(channels), channel_to_remove)

(***************************************************************************)
(* What the program prints.  A line is its format and its arguments; the   *)
(* leading check mark and cross of the messages are left out.              *)
(***************************************************************************)
Line(fmt, args) == [fmt |-> fmt, args |-> args]

UsageLines ==
    << Line("Usage: python clean_appcast.py <appcast_file> <channel_name>", <<>>),
       Line("Example: python clean_appcast.py appcast.xml edge", <<>>) >>

SuccessLine(n, channel_to_remove, appcast_path) ==
    Line("Removed {} '{}' channel release(s) from {}",
         <<n, channel_to_remove, appcast_path>>)

\* the except clauses with "except Exception" first: it catches everything
ErrorLineGenericFirst(exc, appcast_path) == Line("Unexpected error: {}", <<exc>>)

\* the except clauses of clean_appcast, in their order: FileNotFoundError, then
\* ET.ParseError, then every other Exception
ErrorLine(exc, appcast_path) ==
    CASE exc = "FileNotFoundError" -> Line("File not found: {}", <<appcast_path>>)
      [] exc = "ParseError" -> Line("Failed to parse XML: {}", <<exc>>)
      [] OTHER -> Line("Unexpected error: {}", <<exc>>)

\* len(sys.argv) < 3: too many arguments pass the check
IsTooFewArguments(args) == Len(args) < 3

\* len(sys.argv) != 3
IsUsageError(args) == Len(args) # 3

\* the command lines tried: no, one, two and three positional arguments
Argvs ==
    {<<"clean_appcast.py">>, <<"clean_appcast.py", AppcastPath>>}
    \cup {<<"clean_appcast.py", AppcastPath, c>> : c \in ChannelNames}
    \cup {<<"clean_appcast.py", AppcastPath, c, "extra">> : c \in ChannelNames}

(***************************************************************************)
(* The state machine.                                                      *)
(***************************************************************************)
Init(n) ==
    /\ file \in InitialFiles(n)
    /\ argv = [p \in Procs |-> <<>>]
    /\ pc = [p \in Procs |-> "idle"]
    /\ tree = [p \in Procs |-> <<>>]
    /\ removed_count = [p \in Procs |-> 0]
    /\ stdout = [p \in Procs |-> <<>>]
    /\ stderr = [p \in Procs |-> <<>>]
    /\ exit = [p \in Procs |-> <<>>]
    /\ fileAtStart = [p \in Procs |-> Absent]
    /\ readFile = [p \in Procs |-> Absent]
    /\ reads = [p \in Procs |-> 0]
    /\ writes = [p \in Procs |-> 0]
    /\ writeLog = <<>>

\* an exception raised inside the try block of clean_appcast: the matching
\* except clause prints to the error stream and calls sys.exit(1)
Raise(p, exc) ==
    /\ stderr' = [stderr EXCEPT ![p] = Append(@, ErrorLine(exc, argv[p][2]))]
    /\ exit' = [exit EXCEPT ![p] = <<1>>]
    /\ pc' = [pc EXCEPT ![p] = "exited"]

\* main(): the argument check, then the call of clean_appcast
Main(p, args) ==
    /\ pc[p] = "idle"
    /\ argv' = [argv EXCEPT ![p] = args]
    /\ fileAtStart' = [fileAtStart EXCEPT ![p] = file]
    /\ IF IsUsageError(args)
       THEN /\ stdout' = [stdout EXCEPT ![p] = @ \o UsageLines]
            /\ exit' = [exit EXCEPT ![p] = <<1>>]
            /\ pc' = [pc EXCEPT ![p] = "exited"]
       ELSE /\ pc' = [pc EXCEPT ![p] = "parse"]
            /\ UNCHANGED <<stdout, exit>>
    /\ UNCHANGED <<file, tree, removed_count, stderr, readFile, reads, writes, writeLog>>

\* tree = ET.parse(appcast_path); root = tree.getroot(); removed_count = 0.
\* Opening an existing file may be refused (denied).
Parse(p) ==
    /\ pc[p] = "parse"
    /\ \E denied \in BOOLEAN :
        LET exc == IF file.kind = "absent" THEN ParseOutcome(file)
                   ELSE IF denied THEN "PermissionError"
                   ELSE ParseOutcome(file)
            opened == file.kind # "absent" /\ ~denied
        IN /\ reads' = [reads EXCEPT ![p] = IF opened THEN @ + 1 ELSE @]
           /\ readFile' = [readFile EXCEPT ![p] = IF opened THEN file ELSE @]
           /\ IF exc = ""
              THEN /\ tree' = [tree EXCEPT ![p] = ParseXml(file)]
                   /\ removed_count' = [removed_count EXCEPT ![p] = 0]
                   /\ pc' = [pc EXCEPT ![p] = "filter"]
                   /\ UNCHANGED <<stderr, exit>>
              ELSE /\ Raise(p, exc)
                   /\ UNCHANGED <<tree, removed_count>>
    /\ UNCHANGED <<file, argv, stdout, fileAtStart, writes, writeLog>>

\* the loop over root.findall('.//channel')
Filter(p) ==
    /\ pc[p] = "filter"
    /\ LET st == FilterChannels([heap |-> tree[p], count |-> removed_count[p]],
                                FindChannels(tree[p]), argv[p][3])
       IN /\ tree' = [tree EXCEPT ![p] = st.heap]
          /\ removed_count' = [removed_count EXCEPT ![p] = st.count]
    /\ pc' = [pc EXCEPT ![p] = "open"]
    /\ UNCHANGED <<file, argv, stdout, stderr, exit, fileAtStart, readFile, reads,
                   writes, writeLog>>

\* tree.write(...), first half: open(appcast_path, "w") truncates the file,
\* unless the open is refused
Open(p) ==
    /\ pc[p] = "open"
    /\ \E denied \in BOOLEAN :
        IF denied
        THEN /\ Raise(p, "PermissionError")
             /\ UNCHANGED <<file, writes>>
        ELSE /\ file' = Empty
             /\ writes' = [writes EXCEPT ![p] = @ + 1]
             /\ pc' = [pc EXCEPT ![p] = "write"]
             /\ UNCHANGED <<stderr, exit>>
    /\ UNCHANGED <<argv, tree, removed_count, stdout, fileAtStart, readFile, reads,
                   writeLog>>

\* a write whose failure is swallowed: the run goes on to report success
WriteIgnoringFailure(p) ==
    /\ pc[p] = "write"
    /\ \E failed \in BOOLEAN :
        IF failed
        THEN UNCHANGED <<file, writeLog>>
        ELSE /\ file' = Overwrite(file, Serialize(tree[p]))
             /\ writeLog' = Append(writeLog, p)
    /\ pc' = [pc EXCEPT ![p] = "report"]
    /\ UNCHANGED <<argv, tree, removed_count, stdout, stderr, exit, fileAtStart,
                   readFile, reads, writes>>

\* tree.write(...), second half: the serialised document is flushed to the
\* file and the file is closed, unless the device fails
Write(p) ==
    /\ pc[p] = "write"
    /\ \E failed \in BOOLEAN :
        IF failed
        THEN /\ Raise(p, "OSError")
             /\ UNCHANGED <<file, writeLog>>
        ELSE /\ file' = Overwrite(file, Serialize(tree[p]))
             /\ writeLog' = Append(writeLog, p)
             /\ pc' = [pc EXCEPT ![p] = "report"]
             /\ UNCHANGED <<stderr, exit>>
    /\ UNCHANGED <<argv, tree, removed_count, stdout, fileAtStart, readFile, reads,
                   writes>>

\* print(f"Removed {removed_count} ..."); clean_appcast and main return
Report(p) ==
    /\ pc[p] = "report"
    /\ stdout' = [stdout EXCEPT ![p] =
                    Append(@, SuccessLine(removed_count[p], argv[p][3], argv[p][2]))]
    /\ exit' = [exit EXCEPT ![p] = <<0>>]
    /\ pc' = [pc EXCEPT ![p] = "exited"]
    /\ UNCHANGED <<file, argv, tree, removed_count, stderr, fileAtStart, readFile,
                   reads, writes, writeLog>>

\* the steps of clean_appcast
Step(p) == Parse(p) \/ Filter(p) \/ Open(p) \/ Write(p) \/ Report(p)

\* one invocation
Next == (\E args \in Argvs : Main(1, args)) \/ Step(1)

Spec == Init(MaxNodes) /\ [][Next]_vars

\* the command is run, and when it has terminated it is run again with the
\* same arguments
NextTwice ==
    \/ (\E args \in Argvs : Main(1, args)) \/ Step(1)
    \/ (pc[1] = "exited" /\ (Main(2, argv[1]) \/ Step(2)))

SpecTwice == Init(MaxNodesTwice) /\ [][NextTwice]_vars

\* two invocations run at the same time, with no coordination
NextRace == \E p \in Procs : (\E args \in Argvs : Main(p, args)) \/ Step(p)

SpecRace == Init(MaxNodesRace) /\ [][NextRace]_vars

(***************************************************************************)
(* Vocabulary of the properties, over documents as values.                 *)
(***************************************************************************)
Succeeded(p) == exit[p] = <<0>>

\* the document invocation p parsed, and the channel name it was given
InputOf(p) == readFile[p].tree
TargetOf(p) == argv[p][3]

RECURSIVE ProperSubtrees(_)
\* the elements below t
ProperSubtrees(t) ==
    UNION {{t.kids[i]} \cup ProperSubtrees(t.kids[i]) : i \in 1..Len(t.kids)}

Subtrees(t) == {t} \cup ProperSubtrees(t)

SparkleKids(item) == SelectSeq(item.kids, LAMBDA k : k.tag = SparkleChannelTag)

\* some Sparkle-channel child of the item has the text `name`
HasSparkleText(item, name) ==
    \E i \in 1..Len(item.kids) :
        item.kids[i].tag = SparkleChannelTag /\ item.kids[i].text = <<name>>

\* "none": no Sparkle-channel child; "same": the first one has the text
\* `name`; "other": the first one has another text
ItemClass(item, name) ==
    IF SparkleKids(item) = <<>> THEN "none"
    ELSE IF Head(SparkleKids(item)).text = <<name>> THEN "same" ELSE "other"

\* how an item is matched: by any Sparkle-channel child, or by the first
ItemMatches(item, name, how) ==
    IF how = "any" THEN HasSparkleText(item, name) ELSE ItemClass(item, name) = "same"

\* the number of direct item children of element c that match
MatchingUnder(c, name, how) ==
    Len(SelectSeq(c.kids, LAMBDA k : k.tag = "item" /\ ItemMatches(k, name, how)))

RECURSIVE CountBelow(_, _, _)
\* the matching items of the feed channels below t (t itself is not looked at)
CountBelow(t, name, how) ==
    LET RECURSIVE Sum(_)
        Sum(ks) ==
            IF ks = <<>> THEN 0
            ELSE (IF Head(ks).tag = "channel" THEN MatchingUnder(Head(ks), name, how) ELSE 0)
                 + CountBelow(Head(ks), name, how) + Sum(Tail(ks))
    IN Sum(t.kids)

\* the matching items of all feed channels of document t, a root channel included
CountAll(t, name, how) ==
    (IF t.tag = "channel" THEN MatchingUnder(t, name, how) ELSE 0) + CountBelow(t, name, how)

RECURSIVE NumClass(_, _, _)
\* the number of item elements of t of the given class
NumClass(t, name, class) ==
    LET RECURSIVE Sum(_)
        Sum(ks) == IF ks = <<>> THEN 0 ELSE NumClass(Head(ks), name, class) + Sum(Tail(ks))
    IN (IF t.tag = "item" /\ ItemClass(t, name) = class THEN 1 ELSE 0) + Sum(t.kids)

\* element k, a child of element t, is an item the filter deletes (below: t is
\* not the root)
IsDeleted(t, k, name, below) ==
    below /\ t.tag = "channel" /\ k.tag = "item" /\ ItemClass(k, name) = "same"

RECURSIVE NumClassKept(_, _, _, _)
\* the number of item elements of t of the given class that do not lie inside
\* (and are not) an item the filter deletes
NumClassKept(t, name, class, below) ==
    LET RECURSIVE Sum(_)
        Sum(ks) ==
            IF ks = <<>> THEN 0
            ELSE (IF IsDeleted(t, Head(ks), name, below) THEN 0
                  ELSE NumClassKept(Head(ks), name, class, TRUE)) + Sum(Tail(ks))
    IN (IF t.tag = "item" /\ ItemClass(t, name) = class THEN 1 ELSE 0) + Sum(t.kids)

RECURSIVE PruneElement(_, _, _)
\* element t without the items the filter deletes, everything else as it was
PruneElement(t, name, below) ==
    LET kept == SelectSeq(t.kids, LAMBDA k : ~IsDeleted(t, k, name, below))
    IN [t EXCEPT !.kids = [i \in 1..Len(kept) |-> PruneElement(kept[i], name, TRUE)]]

Prune(t, name) == PruneElement(t, name, FALSE)

\* the elements of a heap that have no parent any more: those passed to remove()
Detached(heap) ==
    {i \in 1..Len(heap) :
        i # root /\ \A j \in 1..Len(heap) : \A k \in 1..Len(heap[j].kids) : heap[j].kids[k] # i}

(***************************************************************************)
(* C1.  The filter invariant.                                              *)
(***************************************************************************)
\* C1 as stated: after a successful run the written document has no item that
\* is a direct child of a channel element (anywhere in the document, the root
\* included) and has a Sparkle-channel child whose text equals the target.
C1_NoMatchingItemAnywhere ==
    Succeeded(1) =>
        /\ file.kind = "xml"
        /\ \A c \in Subtrees(file.tree) :
              c.tag = "channel" => MatchingUnder(c, TargetOf(1), "any") = 0

\* C1 as amended: after a successful run the written document has no item that
\* is a direct child of a channel element below the root and whose first
\* Sparkle-channel child has a text equal to the target.
C1_NoMatchingItemBelowRoot ==
    Succeeded(1) =>
        /\ file.kind = "xml"
        /\ \A c \in ProperSubtrees(file.tree) :
              c.tag = "channel" => MatchingUnder(c, TargetOf(1), "first") = 0

\* a successful run on a document with a matching item in a feed channel that
\* is nested in an item of another feed channel
C1_Witness ==
    /\ Succeeded(1)
    /\ \E i \in ProperSubtrees(InputOf(1)) :
          /\ i.tag = "item"
          /\ \E c \in ProperSubtrees(i) :
                c.tag = "channel" /\ MatchingUnder(c, TargetOf(1), "first") > 0

(***************************************************************************)
(* C2.  The reported count.                                                *)
(***************************************************************************)
\* C2 as stated: when exactly K items across all feed channels have a
\* Sparkle-channel text equal to the target, a successful run removes exactly
\* K items and prints K in its confirmation line, with exit status 0.
C2_CountOfAllMatchingItems ==
    Succeeded(1) =>
        LET K == CountAll(InputOf(1), TargetOf(1), "any")
        IN /\ Cardinality(Detached(tree[1])) = K
           /\ stdout[1] = <<SuccessLine(K, TargetOf(1), AppcastPath)>>

\* C2 as amended: K counts the items of the feed channels below the root whose
\* first Sparkle-channel child has the target as its text; a successful run
\* removes exactly K items from their feed channels, all of them items, and
\* prints K in its confirmation line, with exit status 0.
C2_CountOfItemsFound ==
    Succeeded(1) =>
        LET K == CountBelow(InputOf(1), TargetOf(1), "first")
        IN /\ Cardinality(Detached(tree[1])) = K
           /\ \A i \in Detached(tree[1]) : tree[1][i].tag = "item"
           /\ stdout[1] = <<SuccessLine(K, TargetOf(1), AppcastPath)>>
           /\ stderr[1] = <<>>

\* a successful run that removed two items
C2_Witness ==
    /\ Succeeded(1)
    /\ CountBelow(InputOf(1), TargetOf(1), "first") = 2
    /\ removed_count[1] = 2

(***************************************************************************)
(* C3.  The frame: nothing but matching items is deleted.                  *)
(***************************************************************************)
\* the item elements of t that do not match the target: all but the items of
\* the feed channels below the root whose first Sparkle-channel child has it
NumNotMatching(t, name) ==
    (NumClass(t, name, "none") + NumClass(t, name, "other") + NumClass(t, name, "same"))
    - CountBelow(t, name, "first")

\* C3 as stated: a successful run only deletes matching items; every item that
\* does not match is still in the output, the retained items keep their
\* order, and every other element is unchanged.
C3_EveryOtherItemRetained ==
    Succeeded(1) =>
        /\ file.kind = "xml"
        /\ file.tree = Prune(InputOf(1), TargetOf(1))
        /\ NumNotMatching(file.tree, TargetOf(1)) = NumNotMatching(InputOf(1), TargetOf(1))

\* C3 as amended: the written document is the input document without the
\* matching items (and so without what is nested inside them); every item that
\* is neither matching nor inside a matching item is still under its feed
\* channel, in the same order, and every other element is unchanged.
C3_OnlyMatchingItemsDeleted ==
    Succeeded(1) =>
        /\ file.kind = "xml"
        /\ file.tree = Prune(InputOf(1), TargetOf(1))

\* a successful run that deleted an item between two retained children of a
\* feed channel
C3_Witness ==
    /\ Succeeded(1)
    /\ \E c \in ProperSubtrees(InputOf(1)) :
          /\ c.tag = "channel"
          /\ Len(c.kids) = 3
          /\ ~IsDeleted(c, c.kids[1], TargetOf(1), TRUE)
          /\ IsDeleted(c, c.kids[2], TargetOf(1), TRUE)
          /\ ~IsDeleted(c, c.kids[3], TargetOf(1), TRUE)
          /\ c.kids[1] # c.kids[3]

(***************************************************************************)
(* C4.  Exact match only.                                                  *)
(***************************************************************************)
\* C4 as stated: every item without a Sparkle-channel child, and every item
\* whose Sparkle-channel text differs from the target (if only in case), is in
\* the output of a successful run.
C4_EveryOtherItemPresent ==
    Succeeded(1) =>
        /\ file.kind = "xml"
        /\ NumClass(file.tree, TargetOf(1), "none") = NumClass(InputOf(1), TargetOf(1), "none")
        /\ NumClass(file.tree, TargetOf(1), "other") = NumClass(InputOf(1), TargetOf(1), "other")

\* C4 as amended: what a run removes from a feed channel is an item whose
\* (first) Sparkle-channel child has exactly the target as its text; the
\* items without a Sparkle-channel child, and those with another text, are in
\* the output unless they are nested inside a removed item.
C4_OnlyExactMatchesRemoved ==
    Succeeded(1) =>
        /\ file.kind = "xml"
        /\ \A i \in Detached(tree[1]) :
              LET channel_elem == Find(tree[1], i, SparkleChannelTag)
              IN /\ tree[1][i].tag = "item"
                 /\ channel_elem # None
                 /\ tree[1][channel_elem[1]].text = <<TargetOf(1)>>
        /\ NumClass(file.tree, TargetOf(1), "none")
              = NumClassKept(InputOf(1), TargetOf(1), "none", FALSE)
        /\ NumClass(file.tree, TargetOf(1), "other")
              = NumClassKept(InputOf(1), TargetOf(1), "other", FALSE)

\* a successful run that removed an item and retained, in the same feed
\* channel, an item whose Sparkle-channel text differs from the target only
\* in case
C4_Witness ==
    /\ Succeeded(1)
    /\ removed_count[1] > 0
    /\ TargetOf(1) = "edge"
    /\ \E c \in ProperSubtrees(file.tree) :
          /\ c.tag = "channel"
          /\ \E i \in 1..Len(c.kids) :
                c.kids[i].tag = "item" /\ ItemClass(c.kids[i], "Edge") = "same"

(***************************************************************************)
(* C5.  Running the filter twice.                                          *)
(***************************************************************************)
\* C5: when the command is run twice in succession with the same arguments
\* and both runs succeed, the second run reports 0 removed items and the
\* document it writes is the document it read, the output of the first run.
C5_SecondRunChangesNothing ==
    (Succeeded(1) /\ Succeeded(2)) =>
        /\ argv[2] = argv[1]
        /\ stdout[2] = <<SuccessLine(0, TargetOf(2), AppcastPath)>>
        /\ readFile[2] = Serialize(tree[1])
        /\ file = readFile[2]

\* two successful runs, the first of which removed an item from a file that
\* was not in the form the program writes
C5_Witness ==
    /\ Succeeded(1) /\ Succeeded(2)
    /\ removed_count[1] > 0
    /\ readFile[1].kind = "xml" /\ ~readFile[1].decl /\ readFile[1].prefix = "ns0"
    /\ writeLog = <<1, 2>>

(***************************************************************************)
(* C6.  A path that names no file.                                         *)
(***************************************************************************)
\* the run was given two arguments, and no file existed when it was started
MissingFileRun(p) ==
    pc[p] = "exited" /\ Len(argv[p]) = 3 /\ fileAtStart[p] = Absent

\* C6: when the path names no file, the run prints the "File not found: <path>"
\* message to the error stream and nothing to standard output, terminates with
\* status 1, never reaches the write, and no file exists at the path afterwards.
C6_MissingFile ==
    MissingFileRun(1) =>
        /\ stderr[1] = <<Line("File not found: {}", <<AppcastPath>>)>>
        /\ stdout[1] = <<>>
        /\ exit[1] = <<1>>
        /\ writes[1] = 0
        /\ file = Absent

C6_Witness == MissingFileRun(1) /\ stderr[1] # <<>>

(***************************************************************************)
(* C7.  The error taxonomy.                                                *)
(***************************************************************************)
\* the run was given two arguments and did not succeed
Failed(p) == pc[p] = "exited" /\ Len(argv[p]) = 3 /\ ~Succeeded(p)

\* the prefix the failure of run p calls for: the path was missing; the
\* content read was not well-formed XML; anything else (the open for reading
\* refused, the open for writing refused, the write failed)
ExpectedPrefix(p) ==
    IF fileAtStart[p] = Absent THEN "File not found: {}"
    ELSE IF reads[p] = 1 /\ readFile[p].kind # "xml" THEN "Failed to parse XML: {}"
    ELSE "Unexpected error: {}"

C8_UsageError ==
    (pc[1] # "idle" /\ Len(argv[1]) # 3) =>
        /\ pc[1] = "exited"
        /\ exit[1] = <<1>>
        /\ stdout[1] = UsageLines
        /\ stderr[1] = <<>>
        /\ reads[1] = 0 /\ writes[1] = 0
        /\ tree[1] = <<>>
        /\ file = fileAtStart[1]

\* the program was given three positional arguments, the file being a document
C8_Witness ==
    /\ pc[1] = "exited"
    /\ Len(argv[1]) = 4
    /\ file.kind = "xml"
    /\ stdout[1] = UsageLines

(***************************************************************************)
(* C9.  Read once, then filter, then write once, then report.              *)
(***************************************************************************)
HasSuccessLine(p) ==
    \E i \in 1..Len(stdout[p]) : stdout[p][i].fmt = SuccessLine(0, "", "").fmt

\* C9: within one invocation the file is read at most once and written at
\* most once; the write happens only after the parse and the whole filter
\* pass, and also when nothing was removed; the success line is printed only
\* after the write has returned; a run that does not reach the write leaves
\* the file as it was; no run prints both a success line and an error message.
C9_Lifecycle ==
    /\ reads[1] <= 1 /\ writes[1] <= 1
    /\ writes[1] = 1 =>
          /\ reads[1] = 1
          /\ pc[1] \in {"write", "report", "exited"}
          /\ LET st == FilterChannels([heap |-> ParseXml(readFile[1]), count |-> 0],
                                      FindChannels(ParseXml(readFile[1])), TargetOf(1))
             IN tree[1] = st.heap /\ removed_count[1] = st.count
    /\ Len(writeLog) <= writes[1]
    /\ (pc[1] # "idle" /\ writes[1] = 0) => file = fileAtStart[1]
    /\ Succeeded(1) <=> HasSuccessLine(1)
    /\ HasSuccessLine(1) =>
          /\ pc[1] = "exited"
          /\ writeLog = <<1>>
          /\ file = Serialize(tree[1])
          /\ stderr[1] = <<>>

\* a successful run that removed nothing and still wrote the file: the file
\* it read had no XML declaration, the file it left has one
C9_Witness ==
    /\ Succeeded(1)
    /\ removed_count[1] = 0
    /\ writeLog = <<1>>
    /\ file # fileAtStart[1]

(***************************************************************************)
(* C10.  Two invocations at the same time.                                 *)
(***************************************************************************)
BothSucceeded == Succeeded(1) /\ Succeeded(2)

\* the invocation whose write reached the file last, and the other one
LastWriter == writeLog[Len(writeLog)]
FirstWriter == writeLog[1]

====
